---- MODULE Spec2Model ----
(***************************************************************************)
(* Model of net-snmp-inventory.py: the driver loop over the enumerated     *)
(* hosts (ping probe, then snmpAudit, then the merge of its result) and    *)
(* snmpAudit itself, the per-host SNMP pipeline                            *)
(* base scalar fetch -> vendor extension -> MAC walk -> physical-interface *)
(* walk -> IP-address walk -> finalize.                                    *)
(*                                                                         *)
(* One action per protocol exchange: a getCmd fetch with the handling of   *)
(* its answer, or one pass of a walk loop.  The host's answers are the     *)
(* nondeterministic inputs.  Text is a sequence of one-character strings   *)
(* and every value carries its Python or SNMP type tag.  An exception that *)
(* no handler catches ends the scan in pc = "raised".  A nextCmd generator *)
(* that has yielded an indication or an error status has returned: the     *)
(* next call on it raises StopIteration.                                   *)
(***************************************************************************)
EXTENDS Integers, Sequences, FiniteSets, TLC

(* ------------------------------------------------------------------ *)
(* Bounds of the explored input space                                   *)
(* ------------------------------------------------------------------ *)
\* largest configured iteration limit (-il) explored
MaxIter == 2
\* largest interface index a host delivers
MaxIndex == 2
\* largest number of enumerated host addresses explored
MaxHosts == 2
\* most values a base response carries beyond the requested ones
MaxExtra == 5

(* ------------------------------------------------------------------ *)
(* Characters and literals                                              *)
(* ------------------------------------------------------------------ *)
LF == "\n"
CR == "\r"
SP == " "
\* argparse default of --csv_delim
csvReportDelimeter == <<";">>

Fortinet == <<"F","o","r","t","i","n","e","t">>
FortiGate == <<"F","o","r","t","i","G","a","t","e">>

(* ------------------------------------------------------------------ *)
(* Python values, each with its type tag                                *)
(* ------------------------------------------------------------------ *)
None == [t |-> "none", s |-> <<>>, l |-> <<>>, b |-> FALSE, n |-> 0, o |-> <<>>]
Str(x) == [t |-> "str", s |-> x, l |-> <<>>, b |-> FALSE, n |-> 0, o |-> <<>>]
List(x) == [t |-> "list", s |-> <<>>, l |-> x, b |-> FALSE, n |-> 0, o |-> <<>>]
Bool(x) == [t |-> "bool", s |-> <<>>, l |-> <<>>, b |-> x, n |-> 0, o |-> <<>>]
PyInt(x) == [t |-> "int", s |-> <<>>, l |-> <<>>, b |-> FALSE, n |-> x, o |-> <<>>]
\* ipaddress.IPv4Address, held as its four octets
IPv4Address(x) == [t |-> "IPv4Address", s |-> <<>>, l |-> <<>>, b |-> FALSE, n |-> 0, o |-> x]
\* a local name that has not been assigned yet
Unbound == [t |-> "unbound", s |-> <<>>, l |-> <<>>, b |-> FALSE, n |-> 0, o |-> <<>>]

\* SNMP values as delivered by the library
OctetString(x) == [t |-> "OctetString", s |-> x, n |-> 0, o |-> <<>>]
Integer32(x) == [t |-> "Integer32", s |-> <<>>, n |-> x, o |-> <<>>]
IpAddress(x) == [t |-> "IpAddress", s |-> <<>>, n |-> 0, o |-> x]
\* ifPhysAddress: an octet string held as its octets
PhysAddress(x) == [t |-> "PhysAddress", s |-> <<>>, n |-> 0, o |-> x]
\* a column of a lock-step walk that has run out of its table
EndOfMibView == [t |-> "EndOfMibView", s |-> <<>>, n |-> 0, o |-> <<>>]

Digit(d) == <<"0","1","2","3","4","5","6","7","8","9">>[d + 1]

RECURSIVE Decimal(_)
Decimal(n) == IF n < 10 THEN <<Digit(n)>> ELSE Decimal(n \div 10) \o <<Digit(n % 10)>>

\* str(value) of an SNMP value
PyStr(v) == IF v.t = "Integer32" THEN Decimal(v.n) ELSE v.s

\* does s start with prefix p at position i
StartsAt(s, p, i) == /\ i + Len(p) - 1 <= Len(s)
                     /\ \A j \in 1..Len(p) : s[i + j - 1] = p[j]

\* Python: sub in s
Contains(sub, s) == \E i \in 1..(Len(s) + 1) : StartsAt(s, sub, i)

\* Python: s.replace(old, new), old non-empty
RECURSIVE ReplaceFrom(_, _, _, _)
ReplaceFrom(s, old, new, i) ==
    IF i > Len(s) THEN <<>>
    ELSE IF StartsAt(s, old, i) THEN new \o ReplaceFrom(s, old, new, i + Len(old))
    ELSE <<s[i]>> \o ReplaceFrom(s, old, new, i + 1)

Replace(s, old, new) == ReplaceFrom(s, old, new, 1)

(* ------------------------------------------------------------------ *)
(* Host record                                                          *)
(* ------------------------------------------------------------------ *)
\* key order of dataDictTemplate
Keys == <<"Sysname", "Manufacturer", "Model", "FW", "S/N", "Location", "Description",
          "Contact", "Comment", "Interfaces Count", "MAC Address", "IP Addresses",
          "PING", "SNMP">>

KeySet == {Keys[i] : i \in 1..Len(Keys)}

dataDictTemplate == [k \in KeySet |-> IF k \in {"PING", "SNMP"} THEN Bool(FALSE) ELSE None]

interfaceDictTemplate ==
    [k \in {"Index", "Name", "Alias", "Type", "MTU", "MAC Address", "IP Address", "Netmask",
            "Description", "Admin Status", "Operation Status"} |->
        IF k \in {"Admin Status", "Operation Status"} THEN Bool(FALSE) ELSE None]

\* number of object identifiers in the base getCmd
NumRequested == 10

\* the four replace calls applied to every base-fetch value
Sanitize(value, valuesDelimeter) ==
    Replace(Replace(Replace(Replace(PyStr(value), <<LF, CR>>, <<SP>>),
                            <<LF>>, <<SP>>), <<CR>>, <<SP>>), valuesDelimeter, <<SP>>)

\* varBindValues of the base fetch
RECURSIVE BaseValues(_, _)
BaseValues(varBinds, valuesDelimeter) ==
    IF varBinds = <<>> THEN <<>>
    ELSE <<Sanitize(Head(varBinds), valuesDelimeter)>> \o BaseValues(Tail(varBinds), valuesDelimeter)

\* "for key in snmpDataDict[snmpHost]" with the running index i; needs Len(values) > 0
RECURSIVE FillLoop(_, _, _, _)
FillLoop(d, values, keyPos, i) ==
    IF keyPos > Len(Keys) THEN d
    ELSE LET value == values[i + 1]
             d2 == IF Len(value) > 0 THEN [d EXCEPT ![Keys[keyPos]] = Str(value)] ELSE d
         IN  IF i < Len(values) - 1 THEN FillLoop(d2, values, keyPos + 1, i + 1) ELSE d2

\* isinstance(x, int)
IsInstanceInt(x) == x.t \in {"int", "bool"}

(* ------------------------------------------------------------------ *)
(* Responses a host can give (the explored input space)                 *)
(* ------------------------------------------------------------------ *)
\* each profile varies the responses of one part of the scan and keeps the
\* others to a few: "scalars" the two getCmd fetches (iteration limit 1),
\* "mac" the MAC walk and the failures of the interface walks, "tables" the
\* rows of the physical-interface walk and "addresses" the rows of the
\* IP-address walk (both scanned as a reachable host); these four scan a
\* single address (a /32 network).  "driver" scans several addresses with few
\* responses each and varies the ping results and the ignore-ping flag.  The
\* library hands over the variable bindings of a response without comparing
\* their number with the request: "long" answers the base fetch with more values
\* than were requested
Profiles == {"scalars", "mac", "tables", "addresses", "driver", "long"}

Dirty == <<"a", LF, CR, ";", CR, LF>>

\* candidate values per requested identifier, in request order
BaseColumns(p) ==
    IF p = "scalars"
    THEN << {OctetString(Dirty), OctetString(<<>>)},
            {OctetString(Fortinet), OctetString(<<"H", "P">>), OctetString(<<>>)},
            {OctetString(<<"m">>)},
            {OctetString(<<>>), OctetString(<<"v", "5">>), OctetString(FortiGate \o <<"-", "6">>)},
            {OctetString(<<"S", "1">>)},
            {OctetString(<<"L", ";">>)},
            {OctetString(<<"d", CR>>)},
            {OctetString(<<>>)},
            {OctetString(<<>>), OctetString(<<"c">>), OctetString(<<"a", " ">> \o FortiGate)},
            {Integer32(1), Integer32(MaxIter + 1)} >>
    ELSE << {OctetString(<<"s">>)}, {OctetString(<<"H", "P">>)}, {OctetString(<<"m">>)},
            {OctetString(<<"v", "5">>)}, {OctetString(<<"S", "1">>)}, {OctetString(<<"L">>)},
            {OctetString(<<"d">>)}, {OctetString(<<>>)}, {OctetString(<<"c">>)},
            {Integer32(MaxIter + 1)} >>

\* all value lists of length k drawn column by column
RECURSIVE Rows(_, _)
Rows(cols, k) == IF k = 0 THEN {<<>>}
                 ELSE {Append(r, v) : r \in Rows(cols, k - 1), v \in cols[k]}

Outcome(kind, varBinds) == [kind |-> kind, varBinds |-> varBinds]
NoOutcome == Outcome("none", <<>>)

Failures == {Outcome("indication", <<>>), Outcome("error", <<>>)}

\* a value beyond the requested ones
ExtraValue == OctetString(<<"x">>)

BaseOutcomes(p) ==
    IF p = "scalars"
    THEN Failures \cup {Outcome("success", vb) :
                           vb \in UNION {Rows(BaseColumns(p), k) : k \in 0..NumRequested}}
    ELSE IF p = "long"
    THEN {Outcome("indication", <<>>)}
         \cup {Outcome("success", vb \o [i \in 1..k |-> ExtraValue]) :
                  vb \in Rows(BaseColumns(p), NumRequested), k \in 1..MaxExtra}
    ELSE {Outcome("indication", <<>>)}
         \cup {Outcome("success", vb) : vb \in Rows(BaseColumns(p), NumRequested)}

VendorColumns == << {OctetString(<<>>), OctetString(<<"v", "7", ";", CR, LF>>)},
                    {OctetString(<<>>), OctetString(<<"F", "G", "1">>)} >>

VendorOutcomes ==
    Failures \cup {Outcome("success", vb) : vb \in UNION {Rows(VendorColumns, k) : k \in 0..2}}

(* ------------------------------------------------------------------ *)
(* State                                                                *)
(* ------------------------------------------------------------------ *)
VARIABLES
    profile,           \* which family of host responses is explored
    pingStatus,        \* argument pingStatus
    cfgIterMaxCount,   \* scriptArgs.snmpIterMaxCount
    snmpIterMaxCount,  \* argument / local snmpIterMaxCount
    snmpDataDict,      \* snmpDataDict[snmpHost]
    interfaceDict,     \* interfaceDict
    intNumber,         \* local intNumber
    snmpIterCount,     \* local snmpIterCount
    exhausted,         \* the current nextCmd generator has returned
    pc,                \* position in snmpAudit
    exc,               \* exception leaving snmpAudit, "none" if none
    exchanges,         \* history: next() calls made, in order
    usable,            \* history: steps that yielded at least one value
    baseResp,          \* history: outcome of the base fetch
    vendorResp,        \* history: outcome of the vendor fetch
    macResp,           \* history: outcome of the MAC walk
    physSeen,          \* history: indices delivered by the physical walk
    ipSeen,            \* history: indices delivered by the IP walk
    physDict,          \* history: interfaceDict as the physical walk left it
    ipWritten,         \* history: per index, the fields the IP walk stored last
    kinds,             \* history: how each next() call of exchanges ended
    ipResp,            \* history: outcome of the latest IP-walk step
    ignorePingFlag,    \* scriptArgs.ignorePingFlag
    templateObjects,   \* the module-level dicts dataDictTemplate, interfaceDictTemplate
    netScanDict,       \* netScanDict[netDescription]
    hostIdx,           \* position of the driver loop in the enumerated addresses
    pingResults,       \* history: hostIsActive of every address probed so far
    audited            \* history: addresses snmpAudit was called for

vars == <<profile, pingStatus, cfgIterMaxCount, snmpIterMaxCount, snmpDataDict, interfaceDict,
          intNumber, snmpIterCount, exhausted, pc, exc, exchanges, usable, baseResp,
          vendorResp, macResp, physSeen, ipSeen, physDict, ipWritten, kinds, ipResp,
          ignorePingFlag, templateObjects, netScanDict, hostIdx, pingResults, audited>>

config == <<profile, pingStatus, cfgIterMaxCount>>
walkVars == <<interfaceDict, intNumber, snmpIterCount, exhausted, physSeen, ipSeen,
              physDict, ipWritten>>
\* what only the driver loop writes
driverVars == <<ignorePingFlag, templateObjects, netScanDict, hostIdx, pingResults, audited>>

\* ping results, iteration limits (-il) and ignore-ping flags (-ip) each
\* profile is run with
PingInputs(p) == IF p \in {"tables", "addresses"} THEN {TRUE} ELSE BOOLEAN

LimitInputs(p) == IF p \in {"scalars", "driver", "long"} THEN {1} ELSE 1..MaxIter

IgnoreInputs(p) ==
    IF p = "driver" THEN BOOLEAN ELSE IF p \in {"tables", "addresses"} THEN {FALSE} ELSE {TRUE}

\* lines 470-477: the enumerated host addresses, by position
Hosts(p) == IF p = "driver" THEN 1..MaxHosts ELSE {1}

\* the record starts as that of a reachable host
SeedRecordReachable(dataDict, ping) ==
    [dataDict EXCEPT !["IP Addresses"] = List(<<>>), !["PING"] = Bool(TRUE)]

\* lines 114-116: the record the scan starts from
SeedRecord(dataDict, ping) ==
    [dataDict EXCEPT !["IP Addresses"] = List(<<>>), !["PING"] = Bool(ping)]

\* the writes of lines 115-116 go to the passed dict itself
SeedLeavesNoCopy(dataDict, ping) == SeedRecord(dataDict, ping)

\* line 114: the dict passed as dataDict after lines 114-116; they write to its copy
SeedLeaves(dataDict, ping) == dataDict

Init ==
    /\ profile \in Profiles
    /\ cfgIterMaxCount \in LimitInputs(profile)
    /\ ignorePingFlag \in IgnoreInputs(profile)
    /\ templateObjects = [data |-> dataDictTemplate, interface |-> interfaceDictTemplate]
    /\ netScanDict = [h \in Hosts(profile) |-> dataDictTemplate]
    /\ hostIdx = 1
    /\ pingResults = <<>>
    /\ audited = {}
    /\ pingStatus = FALSE
    /\ snmpIterMaxCount = cfgIterMaxCount
    /\ snmpDataDict = dataDictTemplate
    /\ interfaceDict = <<>>
    /\ intNumber = Unbound
    /\ snmpIterCount = 0
    /\ exhausted = FALSE
    /\ pc = "ping"
    /\ exc = "none"
    /\ exchanges = <<>>
    /\ kinds = <<>>
    /\ usable = {}
    /\ baseResp = NoOutcome
    /\ vendorResp = NoOutcome
    /\ macResp = NoOutcome
    /\ ipResp = NoOutcome
    /\ physSeen = {}
    /\ ipSeen = {}
    /\ physDict = <<>>
    /\ ipWritten = <<>>

(* ------------------------------------------------------------------ *)
(* Driver loop, lines 469-495 and 529                                   *)
(* ------------------------------------------------------------------ *)
\* where the loop goes after the address at position h
AfterHost(p, h) == IF h + 1 \in Hosts(p) THEN "ping" ELSE "report"

\* lines 484-493: the ping probe of the next address and, when the address is
\* to be audited, the call of snmpAudit with its lines 114-116
Probe ==
    /\ pc = "ping"
    /\ \E hostIsActive \in PingInputs(profile) :
         /\ pingResults' = Append(pingResults, hostIsActive)
         /\ netScanDict' = [netScanDict EXCEPT ![hostIdx]["PING"] = Bool(hostIsActive)]
         /\ IF hostIsActive \/ ignorePingFlag
            THEN /\ audited' = audited \cup {hostIdx}
                 /\ pingStatus' = hostIsActive
                 /\ snmpIterMaxCount' = cfgIterMaxCount
                 /\ snmpDataDict' = SeedRecord(templateObjects.data, hostIsActive)
                 /\ templateObjects' = [templateObjects EXCEPT
                                           !.data = SeedLeaves(@, hostIsActive)]
                 /\ pc' = "base"
                 /\ hostIdx' = hostIdx
            ELSE /\ hostIdx' = hostIdx + 1
                 /\ pc' = AfterHost(profile, hostIdx)
                 /\ UNCHANGED <<audited, pingStatus, snmpIterMaxCount, snmpDataDict,
                                templateObjects>>
    /\ UNCHANGED <<profile, cfgIterMaxCount, ignorePingFlag, walkVars, exc, exchanges, kinds,
                   usable, baseResp, vendorResp, macResp, ipResp>>

\* line 379: the value snmpAudit returns
ReturnValue == hostIdx :> snmpDataDict

\* dict.update
Update(dict, other) ==
    [k \in DOMAIN dict \cup DOMAIN other |-> IF k \in DOMAIN other THEN other[k] ELSE dict[k]]

\* lines 493 and 495: the returned dict is merged and the loop moves on; the
\* locals of the finished call are gone
Collect ==
    /\ pc = "returned"
    /\ netScanDict' = Update(netScanDict, ReturnValue)
    /\ hostIdx' = hostIdx + 1
    /\ pc' = AfterHost(profile, hostIdx)
    /\ pingStatus' = FALSE
    /\ snmpIterMaxCount' = cfgIterMaxCount
    /\ snmpDataDict' = dataDictTemplate
    /\ interfaceDict' = <<>>
    /\ intNumber' = Unbound
    /\ snmpIterCount' = 0
    /\ exhausted' = FALSE
    /\ exchanges' = <<>>
    /\ kinds' = <<>>
    /\ usable' = {}
    /\ baseResp' = NoOutcome
    /\ vendorResp' = NoOutcome
    /\ macResp' = NoOutcome
    /\ ipResp' = NoOutcome
    /\ physSeen' = {}
    /\ ipSeen' = {}
    /\ physDict' = <<>>
    /\ ipWritten' = <<>>
    /\ UNCHANGED <<profile, cfgIterMaxCount, ignorePingFlag, templateObjects, pingResults,
                   audited, exc>>

\* line 529: the scan dictionary is handed to generateCSVReport
Report ==
    /\ pc = "report"
    /\ pc' = "done"
    /\ UNCHANGED <<config, snmpIterMaxCount, snmpDataDict, walkVars, exc, exchanges, kinds,
                   usable, baseResp, vendorResp, macResp, ipResp, driverVars>>

\* the loop runs once more than its limit
WithinBudgetOffByOne(count, max) == count <= max

\* lines 281 and 332: the loop condition of both interface walks
WithinBudget(count, max) == count < max

\* no walk is entered
EnterWalkNever(max, walk) == "final"

\* where control goes when a walk loop is reached with its counter at 0
EnterWalk(max, walk) == IF WithinBudget(0, max) THEN walk ELSE "final"

\* the loop goes on after the generator has ended
AfterStopGoesOn(walk, next) == walk

\* lines 314-315 and 363-364: "except StopIteration: break" leaves the loop of
\* walk for what follows it
AfterStop(walk, next) == next

\* an exception propagates out of snmpAudit
Raise(e) == pc' = "raised" /\ exc' = e

\* at least one returned value has text in it
AnyText(varBinds) == \E i \in 1..Len(varBinds) : Len(PyStr(varBinds[i])) > 0

(* ------------------------------------------------------------------ *)
(* Base scalar fetch, lines 127-191                                     *)
(* ------------------------------------------------------------------ *)
\* line 189
BudgetAfterBase(d, cfg) ==
    IF IsInstanceInt(d["Interfaces Count"]) THEN d["Interfaces Count"].n ELSE cfg

BaseFetch ==
    /\ pc = "base"
    /\ \E r \in BaseOutcomes(profile) :
         /\ baseResp' = r
         /\ exchanges' = Append(exchanges, "base")
         /\ kinds' = Append(kinds, r.kind)
         /\ IF r.kind # "success"
            THEN /\ pc' = "vendor"
                 /\ UNCHANGED <<snmpDataDict, snmpIterMaxCount, exc, usable>>
            ELSE LET varBindValues == BaseValues(r.varBinds, csvReportDelimeter)
                 IN  IF Len(varBindValues) = 0
                     THEN /\ Raise("IndexError")
                          /\ UNCHANGED <<snmpDataDict, snmpIterMaxCount, usable>>
                     ELSE \E filled \in {FillLoop(snmpDataDict, varBindValues, 1, 0)} :
                              /\ snmpDataDict' = [filled EXCEPT !["SNMP"] = Bool(TRUE)]
                              /\ snmpIterMaxCount' = BudgetAfterBase(filled, cfgIterMaxCount)
                              /\ usable' = IF AnyText(r.varBinds) THEN usable \cup {"base"} ELSE usable
                              /\ pc' = "vendor"
                              /\ exc' = exc
    /\ UNCHANGED <<config, walkVars, vendorResp, macResp, ipResp, driverVars>>

(* ------------------------------------------------------------------ *)
(* Vendor extension, lines 194-232                                      *)
(* ------------------------------------------------------------------ *)
\* line 223
VendorValue(value) == Replace(PyStr(value), <<LF>>, <<SP>>)

\* lines 228-232: returns the record and whether varBindValues[arrayKey] was out of range
RECURSIVE VendorFill(_, _, _)
VendorFill(d, varBinds, arrayKey) ==
    IF arrayKey > 1 THEN [d |-> d, ok |-> TRUE]
    ELSE IF arrayKey + 1 > Len(varBinds) THEN [d |-> d, ok |-> FALSE]
    ELSE LET value == VendorValue(varBinds[arrayKey + 1])
             dictKey == IF arrayKey = 0 THEN "FW" ELSE "S/N"
             d2 == IF Len(value) > 0 THEN [d EXCEPT ![dictKey] = Str(value)] ELSE d
         IN  VendorFill(d2, varBinds, arrayKey + 1)

\* lines 194-196; "TypeError" when "in" is applied to None
VendorPredicate(d) ==
    IF d["Manufacturer"] # Str(Fortinet) THEN "no"
    ELSE IF d["Comment"].t # "str" THEN "TypeError"
    ELSE IF Contains(FortiGate, d["Comment"].s) THEN "yes"
    ELSE IF d["FW"].t # "str" THEN "TypeError"
    ELSE IF Contains(FortiGate, d["FW"].s) THEN "yes"
    ELSE "no"

VendorExtension ==
    /\ pc = "vendor"
    /\ LET verdict == VendorPredicate(snmpDataDict)
       IN  CASE verdict = "no" ->
                  /\ pc' = "mac"
                  /\ UNCHANGED <<snmpDataDict, exc, exchanges, kinds, usable, vendorResp>>
             [] verdict = "TypeError" ->
                  /\ Raise("TypeError")
                  /\ UNCHANGED <<snmpDataDict, exchanges, kinds, usable, vendorResp>>
             [] verdict = "yes" ->
                  \E r \in VendorOutcomes :
                     /\ vendorResp' = r
                     /\ exchanges' = Append(exchanges, "vendor")
                     /\ kinds' = Append(kinds, r.kind)
                     /\ IF r.kind # "success"
                        THEN /\ pc' = "mac"
                             /\ UNCHANGED <<snmpDataDict, exc, usable>>
                        ELSE LET res == VendorFill(snmpDataDict, r.varBinds, 0)
                             IN  /\ snmpDataDict' = res.d
                                 /\ usable' = IF AnyText(r.varBinds)
                                              THEN usable \cup {"vendor"} ELSE usable
                                 /\ IF res.ok THEN pc' = "mac" /\ exc' = exc
                                              ELSE Raise("IndexError")
    /\ UNCHANGED <<config, snmpIterMaxCount, walkVars, baseResp, macResp, ipResp, driverVars>>

(* ------------------------------------------------------------------ *)
(* MAC address walk, lines 237-264                                      *)
(* ------------------------------------------------------------------ *)
HexUpper(d) == <<"0","1","2","3","4","5","6","7","8","9","A","B","C","D","E","F">>[d + 1]

\* str(macaddress.MAC(octets)): upper-case pairs joined by "-"
RECURSIVE MacText(_)
MacText(octets) ==
    IF octets = <<>> THEN <<>>
    ELSE <<HexUpper(Head(octets) \div 16), HexUpper(Head(octets) % 16)>>
         \o (IF Len(octets) > 1 THEN <<"-">> ELSE <<>>) \o MacText(Tail(octets))

LowerChar(c) == CASE c = "A" -> "a" [] c = "B" -> "b" [] c = "C" -> "c"
                  [] c = "D" -> "d" [] c = "E" -> "e" [] c = "F" -> "f" [] OTHER -> c

\* str.lower() on the characters a MAC text can hold
Lower(s) == [i \in 1..Len(s) |-> LowerChar(s[i])]

\* line 259
RenderMac(octets) == Lower(Replace(MacText(octets), <<"-">>, <<":">>))

\* macaddress.MAC accepts exactly six octets
MacOctets == 6

\* lines 255-259: the loop over the row's values; ok is FALSE on ValueError
RECURSIVE MacFill(_, _)
MacFill(d, varBinds) ==
    IF varBinds = <<>> THEN [d |-> d, ok |-> TRUE]
    ELSE IF Len(Head(varBinds).o) # MacOctets THEN [d |-> d, ok |-> FALSE]
    ELSE MacFill([d EXCEPT !["MAC Address"] = Str(RenderMac(Head(varBinds).o))], Tail(varBinds))

SampleMac == <<170, 187, 204, 0, 17, 34>>
OtherMac == <<0, 26, 43, 60, 77, 254>>

MacOutcomes(p) ==
    IF p # "mac"
    THEN {Outcome("indication", <<>>), Outcome("success", <<PhysAddress(SampleMac)>>)}
    ELSE Failures \cup {Outcome("stop", <<>>), Outcome("success", <<>>),
                        Outcome("success", <<PhysAddress(SampleMac)>>),
                        Outcome("success", <<PhysAddress(OtherMac)>>),
                        Outcome("success", <<PhysAddress(<<>>)>>)}

MacWalk ==
    /\ pc = "mac"
    /\ \E r \in MacOutcomes(profile) :
         /\ macResp' = r
         /\ exchanges' = Append(exchanges, "mac")
         /\ kinds' = Append(kinds, r.kind)
         /\ CASE r.kind = "stop" ->
                   /\ Raise("StopIteration")
                   /\ UNCHANGED <<snmpDataDict, usable>>
              [] r.kind \in {"indication", "error"} ->
                   /\ pc' = EnterWalk(snmpIterMaxCount, "phys")
                   /\ UNCHANGED <<snmpDataDict, usable, exc>>
              [] r.kind = "success" ->
                   LET res == MacFill(snmpDataDict, r.varBinds)
                   IN  IF res.ok
                       THEN /\ snmpDataDict' = [res.d EXCEPT !["SNMP"] = Bool(TRUE)]
                            /\ usable' = IF Len(r.varBinds) > 0
                                         THEN usable \cup {"mac"} ELSE usable
                            /\ pc' = EnterWalk(snmpIterMaxCount, "phys")
                            /\ exc' = exc
                       ELSE /\ Raise("ValueError")
                            /\ snmpDataDict' = res.d
                            /\ usable' = usable
    /\ UNCHANGED <<config, snmpIterMaxCount, walkVars, baseResp, vendorResp, ipResp, driverVars>>

(* ------------------------------------------------------------------ *)
(* Interface records                                                    *)
(* ------------------------------------------------------------------ *)
\* the record of index n is created anew every time
OpenRecordAlways(dict, n) ==
    [k \in DOMAIN dict \cup {n} |->
        IF k = n THEN [templateObjects.interface EXCEPT !["Index"] = PyInt(n)] ELSE dict[k]]

\* lines 299-301 and 349-351: create the record of index n unless it exists
OpenRecord(dict, n) ==
    IF n \in DOMAIN dict THEN dict
    ELSE dict @@ (n :> [templateObjects.interface EXCEPT !["Index"] = PyInt(n)])

\* value.prettyPrint() of an ifType value
TypeLabel(n) == IF n = 6 THEN <<"e","t","h","e","r","n","e","t","C","s","m","a","c","d">>
                ELSE Decimal(n)

\* interfaceDict[intNumber] can be subscripted
HasRecord(dict, num) == num.t = "int" /\ num.n \in DOMAIN dict

\* the state threaded through the values of one row
RowState(dict, num, e) == [dict |-> dict, num |-> num, exc |-> e]

(* ------------------------------------------------------------------ *)
(* Physical-interface walk, lines 266-315                               *)
(* ------------------------------------------------------------------ *)
\* lines 295-309 for one (name, value); col is the column the name belongs to,
\* so at most one of the three tests applies
PhysValue(st, col, value) ==
    IF st.exc # "none" THEN st
    ELSE IF value.t = "Integer32" /\ col = "ifIndex"
    THEN RowState(OpenRecord(st.dict, value.n), PyInt(value.n), "none")
    ELSE IF value.t = "OctetString" /\ col = "ifDescr" /\ Len(value.s) > 0
    THEN IF HasRecord(st.dict, st.num)
         THEN [st EXCEPT !.dict[st.num.n]["Description"] = Str(value.s)]
         ELSE [st EXCEPT !.exc = "KeyError"]
    ELSE IF value.t = "Integer32" /\ col = "ifType"
    THEN IF HasRecord(st.dict, st.num)
         THEN [st EXCEPT !.dict[st.num.n]["Type"] = Str(TypeLabel(value.n))]
         ELSE [st EXCEPT !.exc = "KeyError"]
    ELSE st

\* lines 291-309: one successful row (each intermediate state is drawn from a
\* one-element set, which makes TLC compute it once)
PhysRow(dict, row) ==
    CHOOSE st \in {PhysValue(s2, "ifType", row[3]) :
                     s2 \in {PhysValue(s1, "ifDescr", row[2]) :
                               s1 \in {PhysValue(RowState(dict, None, "none"),
                                                 "ifIndex", row[1])}}} : TRUE

PhysRows(p) ==
    IF p = "addresses"
    THEN {<<Integer32(1), OctetString(<<"e", "0">>), Integer32(6)>>,
          <<EndOfMibView, OctetString(<<>>), EndOfMibView>>}
    ELSE IF p # "tables"
    THEN {<<Integer32(1), OctetString(<<"e", "0">>), Integer32(6)>>}
    ELSE {<<i, c[1], c[2]>> : i \in {EndOfMibView} \cup {Integer32(n) : n \in 1..MaxIndex},
                              c \in {<<OctetString(<<>>), EndOfMibView>>,
                                     <<OctetString(<<"e", "0">>), Integer32(6)>>}}

\* what one next() on a walk can give; a generator that has returned only stops
WalkOutcomes(p, rows, done) ==
    IF done THEN {Outcome("stop", <<>>)}
    ELSE {Outcome("indication", <<>>), Outcome("stop", <<>>)}
         \cup (IF p = "mac" THEN {Outcome("error", <<>>)} ELSE {})
         \cup {Outcome("success", r) : r \in rows}

\* indices a row delivers
RowIndex(row) == IF row[1].t = "Integer32" THEN {row[1].n} ELSE {}

\* the row carries at least one value the walks store
RowUsable(row) ==
    \E i \in 1..Len(row) : \/ row[i].t \in {"Integer32", "IpAddress"}
                           \/ row[i].t = "OctetString" /\ Len(row[i].s) > 0

PhysStep ==
    /\ pc = "phys"
    /\ WithinBudget(snmpIterCount, snmpIterMaxCount)
    /\ \E r \in WalkOutcomes(profile, PhysRows(profile), exhausted) :
         /\ exchanges' = Append(exchanges, "phys")
         /\ kinds' = Append(kinds, r.kind)
         /\ IF r.kind = "stop"
            THEN \* except StopIteration: break, then line 331
                 /\ pc' = AfterStop("phys", EnterWalk(snmpIterMaxCount, "ip"))
                 /\ snmpIterCount' = 0
                 /\ exhausted' = FALSE
                 /\ physDict' = interfaceDict
                 /\ UNCHANGED <<interfaceDict, intNumber, exc, usable, physSeen>>
            ELSE \E st \in {IF r.kind = "success" THEN PhysRow(interfaceDict, r.varBinds)
                                                 ELSE RowState(interfaceDict, intNumber, "none")} :
                     /\ interfaceDict' = st.dict
                     /\ intNumber' = st.num
                     /\ physSeen' = IF r.kind = "success"
                                    THEN physSeen \cup RowIndex(r.varBinds) ELSE physSeen
                     /\ IF st.exc # "none"
                        THEN /\ Raise(st.exc)
                             /\ UNCHANGED <<snmpIterCount, exhausted, usable, physDict>>
                        ELSE /\ exc' = exc
                             /\ usable' = IF r.kind = "success" /\ RowUsable(r.varBinds)
                                          THEN usable \cup {"phys"} ELSE usable
                             /\ IF WithinBudget(snmpIterCount + 1, snmpIterMaxCount)
                                THEN /\ pc' = "phys"
                                     /\ snmpIterCount' = snmpIterCount + 1
                                     /\ exhausted' = (r.kind # "success")
                                     /\ physDict' = physDict
                                ELSE /\ pc' = EnterWalk(snmpIterMaxCount, "ip")
                                     /\ snmpIterCount' = 0
                                     /\ exhausted' = FALSE
                                     /\ physDict' = st.dict
    /\ UNCHANGED <<config, snmpIterMaxCount, snmpDataDict, baseResp, vendorResp, macResp,
                   ipSeen, ipWritten, ipResp, driverVars>>

(* ------------------------------------------------------------------ *)
(* IP-address walk, lines 317-364                                       *)
(* ------------------------------------------------------------------ *)
\* the 32 bits of an address, most significant first
AddrBits(octets) == [i \in 1..32 |-> (octets[((i - 1) \div 8) + 1] \div (2 ^ (7 - ((i - 1) % 8)))) % 2]

\* position of the first zero bit at or after i, 33 if there is none
RECURSIVE FirstZero(_, _)
FirstZero(bits, i) == IF i > 32 \/ bits[i] = 0 THEN i ELSE FirstZero(bits, i + 1)

\* netaddr IPAddress.is_netmask(): ones followed by zeros only
IsNetmask(octets) ==
    LET bits == AddrBits(octets)
        z == FirstZero(bits, 1)
    IN  \A i \in z..32 : bits[i] = 0

\* IPv4Network((0, mask)).prefixlen of a netmask: its leading one bits
PrefixLen(octets) == FirstZero(AddrBits(octets), 1) - 1

\* str(IPv4Address)
Dotted(octets) == Decimal(octets[1]) \o <<".">> \o Decimal(octets[2]) \o <<".">>
                  \o Decimal(octets[3]) \o <<".">> \o Decimal(octets[4])

\* str() of a record field
FieldText(v) == IF v.t = "IPv4Address" THEN Dotted(v.o) ELSE <<"N", "o", "n", "e">>

\* line 361: the text appended to "IP Addresses"; needs rec["Netmask"] to be an address
Cidr(rec) == FieldText(rec["IP Address"]) \o <<"/">> \o Decimal(PrefixLen(rec["Netmask"].o))

IpState(dict, num, e, wr) == [dict |-> dict, num |-> num, exc |-> e, wr |-> wr]

NothingWritten == [k \in {"IP Address", "Netmask"} |-> None]

\* lines 345-356 for one value
IpValue(st, value) ==
    IF st.exc # "none" THEN st
    ELSE IF value.t = "Integer32"
    THEN [st EXCEPT !.dict = OpenRecord(st.dict, value.n), !.num = PyInt(value.n)]
    ELSE IF value.t = "IpAddress"
    THEN LET objType == IF IsNetmask(value.o) THEN "Netmask" ELSE "IP Address"
         IN  IF st.num.t = "unbound" THEN [st EXCEPT !.exc = "UnboundLocalError"]
             ELSE IF ~HasRecord(st.dict, st.num) THEN [st EXCEPT !.exc = "KeyError"]
             ELSE [st EXCEPT !.dict[st.num.n][objType] = IPv4Address(value.o),
                             !.wr = [k \in DOMAIN st.wr \cup {st.num.n} |->
                                        IF k = st.num.n
                                        THEN [(IF k \in DOMAIN st.wr THEN st.wr[k] ELSE NothingWritten)
                                                 EXCEPT ![objType] = IPv4Address(value.o)]
                                        ELSE st.wr[k]]]
    ELSE st

\* line 361 after the values of a row; cidr is the text to append.  The append
\* method is looked up before its argument is computed
IpAppend(st) ==
    IF st.exc # "none" THEN [st |-> st, cidr |-> <<>>]
    ELSE IF snmpDataDict["IP Addresses"].t # "list"
         THEN [st |-> [st EXCEPT !.exc = "AttributeError"], cidr |-> <<>>]
    ELSE IF st.num.t = "unbound" THEN [st |-> [st EXCEPT !.exc = "UnboundLocalError"], cidr |-> <<>>]
    ELSE IF ~HasRecord(st.dict, st.num) THEN [st |-> [st EXCEPT !.exc = "KeyError"], cidr |-> <<>>]
    ELSE IF st.dict[st.num.n]["Netmask"].t # "IPv4Address"
         THEN [st |-> [st EXCEPT !.exc = "ValueError"], cidr |-> <<>>]
    ELSE [st |-> st, cidr |-> Cidr(st.dict[st.num.n])]

\* lines 342-361: one successful row
IpRow(dict, num, wr, row) ==
    CHOOSE res \in {IpAppend(s3) :
                      s3 \in {IpValue(s2, row[3]) :
                                s2 \in {IpValue(s1, row[2]) :
                                          s1 \in {IpValue(IpState(dict, num, "none", wr),
                                                          row[1])}}}} : TRUE

SampleAddr == <<192, 0, 2, 10>>
SampleMask == <<255, 255, 255, 0>>
ZeroAddr == <<0, 0, 0, 0>>

IpRows(p) ==
    IF p # "addresses"
    THEN {<<Integer32(1), IpAddress(SampleAddr), IpAddress(SampleMask)>>}
    ELSE {<<i, c[1], c[2]>> : i \in {EndOfMibView} \cup {Integer32(n) : n \in 1..MaxIndex},
                              c \in {<<IpAddress(SampleAddr), IpAddress(SampleMask)>>,
                                     <<IpAddress(ZeroAddr), IpAddress(SampleMask)>>,
                                     <<IpAddress(SampleAddr), EndOfMibView>>,
                                     <<EndOfMibView, IpAddress(SampleMask)>>}}

IpStep ==
    /\ pc = "ip"
    /\ WithinBudget(snmpIterCount, snmpIterMaxCount)
    /\ \E r \in WalkOutcomes(profile, IpRows(profile), exhausted) :
         /\ exchanges' = Append(exchanges, "ip")
         /\ kinds' = Append(kinds, r.kind)
         /\ ipResp' = r
         /\ IF r.kind = "stop"
            THEN /\ pc' = AfterStop("ip", "final")
                 /\ UNCHANGED <<interfaceDict, intNumber, exc, usable, ipSeen, ipWritten,
                                snmpDataDict, snmpIterCount, exhausted>>
            ELSE \E res \in {IF r.kind = "success"
                            THEN IpRow(interfaceDict, intNumber, ipWritten, r.varBinds)
                            ELSE [st |-> IpState(interfaceDict, intNumber, "none", ipWritten),
                                  cidr |-> <<>>]} :
                     /\ interfaceDict' = res.st.dict
                     /\ intNumber' = res.st.num
                     /\ ipWritten' = res.st.wr
                     /\ ipSeen' = IF r.kind = "success"
                                  THEN ipSeen \cup RowIndex(r.varBinds) ELSE ipSeen
                     /\ IF res.st.exc # "none"
                        THEN /\ Raise(res.st.exc)
                             /\ UNCHANGED <<snmpDataDict, snmpIterCount, exhausted, usable>>
                        ELSE /\ exc' = exc
                             /\ snmpDataDict' =
                                    IF r.kind = "success"
                                    THEN [snmpDataDict EXCEPT !["IP Addresses"] =
                                             List(Append(snmpDataDict["IP Addresses"].l, res.cidr))]
                                    ELSE snmpDataDict
                             /\ usable' = IF r.kind = "success" /\ RowUsable(r.varBinds)
                                          THEN usable \cup {"ip"} ELSE usable
                             /\ snmpIterCount' = snmpIterCount + 1
                             /\ exhausted' = (r.kind # "success")
                             /\ pc' = IF WithinBudget(snmpIterCount + 1, snmpIterMaxCount)
                                      THEN "ip" ELSE "final"
    /\ UNCHANGED <<config, snmpIterMaxCount, baseResp, vendorResp, macResp, physSeen, physDict,
                   driverVars>>

(* ------------------------------------------------------------------ *)
(* Finalize and return, lines 374-379                                   *)
(* ------------------------------------------------------------------ *)
\* len() of a list or a string
PyLen(v) == IF v.t = "str" THEN Len(v.s) ELSE Len(v.l)

\* lines 374-378
FinalRecord(d) ==
    IF PyLen(d["IP Addresses"]) = 0 THEN [d EXCEPT !["IP Addresses"] = None]
    ELSE [d EXCEPT !["SNMP"] = Bool(TRUE)]

Finalize ==
    /\ pc = "final"
    /\ snmpDataDict' = FinalRecord(snmpDataDict)
    /\ pc' = "returned"
    /\ UNCHANGED <<config, snmpIterMaxCount, walkVars, exc, exchanges, kinds, usable, baseResp,
                   vendorResp, macResp, ipResp, driverVars>>

Next == \/ Probe \/ BaseFetch \/ VendorExtension \/ MacWalk \/ PhysStep \/ IpStep \/ Finalize
        \/ Collect \/ Report

Spec == Init /\ [][Next]_vars

\* the program is one sequential thread that keeps running while it can
FairSpec == Spec /\ WF_vars(Next)

(* ------------------------------------------------------------------ *)
(* Properties                                                           *)
(* ------------------------------------------------------------------ *)
\* number of next() calls made on the exchange named x
Count(x) == Cardinality({i \in 1..Len(exchanges) : exchanges[i] = x})

Finished == pc \in {"returned", "raised"}

\* the positional fill itself failed (an empty value list)
BaseRaised == exc = "IndexError" /\ exchanges = <<"base">>

\* the base fetch and the vendor step are both behind
PastVendor == pc \in {"mac", "phys", "ip", "final", "returned", "raised"} /\ ~BaseRaised

\* the host record as the base fetch left it
AfterBase ==
    IF baseResp.kind = "success" /\ Len(baseResp.varBinds) > 0
    THEN [FillLoop(SeedRecord(dataDictTemplate, pingStatus),
                   BaseValues(baseResp.varBinds, csvReportDelimeter), 1, 0)
             EXCEPT !["SNMP"] = Bool(TRUE)]
    ELSE SeedRecord(dataDictTemplate, pingStatus)

\* a field that is present and has the text sub in it
FieldContains(d, key, sub) == d[key].t = "str" /\ Contains(sub, d[key].s)

\* the activation rule of the Fortinet extension as the specification words it
FortiGateDevice(d) ==
    /\ d["Manufacturer"] = Str(Fortinet)
    /\ FieldContains(d, "Comment", FortiGate) \/ FieldContains(d, "FW", FortiGate)

\* C1: whatever the host answers, snmpAudit returns a record and never lets an
\* exception reach its caller.
C1_NeverRaises == exc = "none" /\ pc # "raised"

\* C2: when snmpAudit returns, the SNMP flag is true exactly when some fetch or
\* walk of the scan yielded at least one usable value.
C2_FlagIffUsableValue ==
    pc = "returned" => (snmpDataDict["SNMP"] = Bool(TRUE) <=> usable # {})

\* C3: the interface collection holds exactly one record per index delivered by
\* either walk, filed under its own index; a record the physical walk filled keeps
\* its description and type through the IP walk and holds the address and mask
\* the IP walk stored for it.
C3_OneMergedRecordPerIndex ==
    /\ DOMAIN interfaceDict = physSeen \cup ipSeen
    /\ \A i \in DOMAIN interfaceDict : interfaceDict[i]["Index"] = PyInt(i)
    /\ \A i \in DOMAIN physDict :
          /\ i \in DOMAIN interfaceDict
          /\ interfaceDict[i]["Description"] = physDict[i]["Description"]
          /\ interfaceDict[i]["Type"] = physDict[i]["Type"]
    /\ \A i \in DOMAIN ipWritten :
          /\ i \in DOMAIN interfaceDict
          /\ interfaceDict[i]["IP Address"] = ipWritten[i]["IP Address"]
          /\ interfaceDict[i]["Netmask"] = ipWritten[i]["Netmask"]

\* C3 witness: a scan returned in which one index was filled by both walks and
\* another index was delivered by the IP walk only.
C3_Witness ==
    /\ pc = "returned"
    /\ \E i \in physSeen \cap ipSeen :
          /\ interfaceDict[i]["Description"].t = "str"
          /\ interfaceDict[i]["Type"].t = "str"
          /\ interfaceDict[i]["IP Address"].t = "IPv4Address"
          /\ interfaceDict[i]["Netmask"].t = "IPv4Address"
    /\ ipSeen \ physSeen # {}

\* C4: neither interface walk makes more GET-NEXT steps than the effective
\* iteration budget, whatever the host returns.
C4_WalkWithinBudget ==
    /\ Count("phys") <= snmpIterMaxCount
    /\ Count("ip") <= snmpIterMaxCount

\* C4 witness: a scan returned after both walks used the whole of a budget
\* larger than one.
C4_Witness ==
    /\ pc = "returned"
    /\ snmpIterMaxCount > 1
    /\ Count("phys") = snmpIterMaxCount
    /\ Count("ip") = snmpIterMaxCount

\* C5: a positive declared interface count C returned by the base fetch becomes
\* the iteration budget of the interface walks.
C5_BudgetIsDeclaredCount ==
    (/\ pc \notin {"base"}
     /\ baseResp.kind = "success"
     /\ Len(baseResp.varBinds) = NumRequested
     /\ baseResp.varBinds[NumRequested].t = "Integer32"
     /\ baseResp.varBinds[NumRequested].n > 0)
    => snmpIterMaxCount = baseResp.varBinds[NumRequested].n

\* C6: a successful base fetch with k < 10 values sets the first k fields from
\* the values position by position, leaves the other requested fields absent,
\* raises nothing and sets the SNMP flag.
C6_PartialResponseFillsPrefix ==
    (/\ exchanges = <<"base">>
     /\ baseResp.kind = "success"
     /\ Len(baseResp.varBinds) < NumRequested)
    => /\ exc = "none"
       /\ snmpDataDict["SNMP"] = Bool(TRUE)
       /\ \A i \in 1..NumRequested :
             snmpDataDict[Keys[i]] =
                IF i <= Len(baseResp.varBinds) /\ Len(PyStr(baseResp.varBinds[i])) > 0
                THEN Str(Sanitize(baseResp.varBinds[i], csvReportDelimeter))
                ELSE None

\* C7: after a transport indication in the MAC walk the MAC Address stays absent
\* and the scan still runs the physical-interface walk and the IP-address walk.
C7_MacIndicationWalksStillRun ==
    (Finished /\ macResp.kind = "indication")
    => /\ snmpDataDict["MAC Address"] = None
       /\ Count("phys") > 0
       /\ Count("ip") > 0

\* the value the vendor fetch is to leave in a field: the returned one when it
\* is there and not empty, else the one the base fetch left
VendorExpected(key, i) ==
    IF vendorResp.kind = "success" /\ i <= Len(vendorResp.varBinds)
       /\ Len(PyStr(vendorResp.varBinds[i])) > 0
    THEN Str(VendorValue(vendorResp.varBinds[i]))
    ELSE AfterBase[key]

\* C8: for manufacturer "Fortinet" with "FortiGate" in the comment or firmware
\* field exactly one vendor fetch is issued, and it changes FW and S/N only,
\* each only to a non-empty returned value.
C8_FortiGateOneFetchFwSnOnly ==
    (PastVendor /\ FortiGateDevice(AfterBase))
    => /\ Count("vendor") = 1
       /\ \A i \in 1..NumRequested :
             Keys[i] \notin {"FW", "S/N"} => snmpDataDict[Keys[i]] = AfterBase[Keys[i]]
       /\ snmpDataDict["FW"] = VendorExpected("FW", 1)
       /\ snmpDataDict["S/N"] = VendorExpected("S/N", 2)

\* C9: the vendor fetch is issued exactly for a Fortinet record with "FortiGate"
\* in a present comment or firmware field; in every other case no vendor fetch is
\* issued and the scan goes on to the MAC walk.
C9_VendorFetchIffFortiGate ==
    PastVendor
    => /\ Count("vendor") = 1 <=> FortiGateDevice(AfterBase)
       /\ ~FortiGateDevice(AfterBase) => (Count("vendor") = 0 /\ (pc = "mac" \/ Count("mac") = 1))

BadChars == {LF, CR} \cup {csvReportDelimeter[i] : i \in 1..Len(csvReportDelimeter)}

\* C10: no text stored by a scalar fetch, base or vendor, holds a carriage
\* return, a line feed or the field delimiter.
C10_ScalarTextSanitized ==
    \A i \in 1..NumRequested :
       (pc # "raised" /\ snmpDataDict[Keys[i]].t = "str")
       => \A j \in 1..Len(snmpDataDict[Keys[i]].s) : snmpDataDict[Keys[i]].s[j] \notin BadChars

\* the step just taken is a pass of the IP walk that received a row
IpRowStep == pc = "ip" /\ exchanges' # exchanges /\ ipResp'.kind = "success"

\* "A/p" as the specification words it
CidrText(addr, prefix) == Dotted(addr) \o <<"/">> \o Decimal(prefix)

\* the address list after one more string
ListPlus(d, text) == List(Append(d["IP Addresses"].l, text))

\* C11: every row of the IP walk that carries an index, an address A and a
\* netmask M appends exactly one string "A/p" to the host's address list, p
\* being the number of leading one bits of M.
C11_RowAppendsOneCidr ==
    [][(/\ IpRowStep
        /\ ipResp'.varBinds[1].t = "Integer32"
        /\ ipResp'.varBinds[2].t = "IpAddress"
        /\ ipResp'.varBinds[3].t = "IpAddress"
        /\ IsNetmask(ipResp'.varBinds[3].o))
       => /\ pc' # "raised"
          /\ snmpDataDict'["IP Addresses"] =
                ListPlus(snmpDataDict, CidrText(ipResp'.varBinds[2].o,
                                                PrefixLen(ipResp'.varBinds[3].o)))]_vars

\* C12: a row of the IP walk that brings an address for an index whose record
\* has no netmask appends "A/0", and the walk goes on.
C12_AbsentMaskGivesPrefixZero ==
    [][(/\ IpRowStep
        /\ ipResp'.varBinds[1].t = "Integer32"
        /\ ipResp'.varBinds[2].t = "IpAddress"
        /\ ~IsNetmask(ipResp'.varBinds[2].o)
        /\ ipResp'.varBinds[3].t # "IpAddress"
        /\ \/ ipResp'.varBinds[1].n \notin DOMAIN interfaceDict
           \/ interfaceDict[ipResp'.varBinds[1].n]["Netmask"] = None)
       => /\ pc' \in {"ip", "final"}
          /\ snmpDataDict'["IP Addresses"] =
                ListPlus(snmpDataDict, CidrText(ipResp'.varBinds[2].o, 0))]_vars

\* number of rows the walk named x has received
RowCount(x) ==
    Cardinality({i \in 1..Len(exchanges) : exchanges[i] = x /\ kinds[i] = "success"})

\* the absent marker or a list that is not empty
AbsentOrNonEmpty(v) == v = None \/ (v.t = "list" /\ Len(v.l) > 0)

\* C13: in every returned host record IP Addresses is the absent marker or a
\* non-empty list, and it is the absent marker exactly when the IP walk appended
\* no string.
C13_IpListAbsentOrNonEmpty ==
    /\ \A h \in DOMAIN netScanDict : AbsentOrNonEmpty(netScanDict[h]["IP Addresses"])
    /\ pc = "returned"
       => /\ AbsentOrNonEmpty(snmpDataDict["IP Addresses"])
          /\ snmpDataDict["IP Addresses"] = None <=> RowCount("ip") = 0
          /\ Len(snmpDataDict["IP Addresses"].l) = RowCount("ip")

\* place of an exchange in the pipeline
Rank(x) == CASE x = "base" -> 1 [] x = "vendor" -> 2 [] x = "mac" -> 3
             [] x = "phys" -> 4 [] x = "ip" -> 5

\* the exchange named x has been started: a call was made or control is at it
Started(x) == Count(x) > 0 \/ pc = x

\* a call of the exchange named x ended in a transport indication
Indicated(x) ==
    \E i \in 1..Len(exchanges) : exchanges[i] = x /\ kinds[i] = "indication"

\* C14: the exchanges of one scan come in the order base fetch, vendor fetch
\* (if any), MAC walk, physical-interface walk, IP-address walk, none before the
\* one ahead of it is over, and a transport indication in a step is followed by
\* the start of the next step, never by the end of the scan.
C14_FixedOrderIndicationGoesOn ==
    /\ \A i, j \in 1..Len(exchanges) : i < j => Rank(exchanges[i]) <= Rank(exchanges[j])
    /\ Count("base") <= 1 /\ Count("vendor") <= 1 /\ Count("mac") <= 1
    /\ exchanges # <<>> => exchanges[1] = "base"
    /\ (Count("phys") > 0 \/ Count("ip") > 0) => Count("mac") = 1
    /\ Indicated("base") => (pc = "vendor" \/ Started("mac"))
    /\ Indicated("vendor") => Started("mac")
    /\ Indicated("mac") => Started("phys")
    /\ Indicated("phys") => (pc = "phys" \/ Started("ip"))
    /\ Indicated("ip") => pc \in {"ip", "final", "returned"}
    /\ (pc = "raised" /\ kinds # <<>>) => kinds[Len(kinds)] # "indication"

\* C14 witness: a scan returned after all five exchanges, the last four of them
\* ended by a transport indication.
C14_Witness ==
    /\ pc = "returned"
    /\ Count("base") = 1
    /\ Indicated("vendor") /\ Indicated("mac") /\ Indicated("phys") /\ Indicated("ip")

\* C15: an interface walk stops at the end of the table, at a transport
\* indication or when the budget is used, whichever is first: after the end of
\* the table nothing more is asked, after an indication at most the call that
\* finds the generator ended follows, and no row is received or merged any more.
C15_WalkStopsAtFirstCause ==
    /\ [](/\ \A i, j \in 1..Len(exchanges) :
               (/\ i < j
                /\ exchanges[i] \in {"phys", "ip"}
                /\ exchanges[j] = exchanges[i]
                /\ kinds[i] # "success")
               => (kinds[i] # "stop" /\ kinds[j] = "stop" /\ j = i + 1)
          /\ Count("phys") <= snmpIterMaxCount
          /\ Count("ip") <= snmpIterMaxCount)
    /\ [][(pc \in {"phys", "ip"} /\ exhausted)
           => /\ interfaceDict' = interfaceDict
              /\ snmpDataDict'["IP Addresses"] = snmpDataDict["IP Addresses"]
              /\ pc' # pc]_vars

\* C15 witness: a scan returned whose physical walk met an indication with
\* budget left and whose IP walk received a row and then an indication.
C15_Witness ==
    /\ pc = "returned"
    /\ Indicated("phys")
    /\ \E i \in 1..Len(exchanges) : exchanges[i] = "phys" /\ kinds[i] = "stop"
    /\ RowCount("ip") > 0
    /\ Indicated("ip")

\* the two templates as the program text defines them
PristineTemplates == [data |-> dataDictTemplate, interface |-> interfaceDictTemplate]

\* C16: the scan of a host writes that host's record and its own interface
\* collection only: the other hosts' records and the two templates stay as they
\* are, and every scan starts from the same record and an empty interface
\* collection whatever was scanned before.
C16_ScanWritesOwnRecordOnly ==
    /\ [](/\ templateObjects = PristineTemplates
          /\ pc = "base" => /\ snmpDataDict = SeedRecord(dataDictTemplate, pingStatus)
                            /\ interfaceDict = <<>>
                            /\ intNumber = Unbound
                            /\ snmpIterMaxCount = cfgIterMaxCount
          /\ \A h \in DOMAIN netScanDict :
                (h > hostIdx \/ (h = hostIdx /\ pc = "ping"))
                => netScanDict[h] = dataDictTemplate)
    /\ [][\A h \in DOMAIN netScanDict : h # hostIdx => netScanDict'[h] = netScanDict[h]]_vars

\* C16 witness: the scan of the second host starts after the first host's scan
\* stored text, addresses and a set SNMP flag.
C16_Witness ==
    /\ pc = "base"
    /\ hostIdx = 2
    /\ netScanDict[1]["Sysname"].t = "str"
    /\ netScanDict[1]["IP Addresses"].t = "list"
    /\ netScanDict[1]["SNMP"] = Bool(TRUE)

\* every exchange made so far ended in a transport indication; the call that
\* finds the generator ended after one asks the host nothing
AllIndications ==
    \A i \in 1..Len(kinds) :
       \/ kinds[i] = "indication"
       \/ /\ kinds[i] = "stop" /\ i > 1
          /\ kinds[i - 1] = "indication" /\ exchanges[i - 1] = exchanges[i]

\* every data field absent and both flags false
AllAbsentBothFalse(d) ==
    \A k \in DOMAIN d : d[k] = IF k \in {"PING", "SNMP"} THEN Bool(FALSE) ELSE None

\* C17: for an unreachable host whose every exchange ends in a transport
\* indication the scan still yields a record, with every data field absent and
\* the PING and SNMP flags false; so it is for a host that is not audited.
C17_SilentHostAllAbsent ==
    /\ (pc \in {"vendor", "mac", "phys", "ip", "final", "returned", "raised"}
        /\ ~pingStatus /\ AllIndications)
       => /\ pc # "raised"
          /\ pc = "returned" => AllAbsentBothFalse(snmpDataDict)
    /\ \A h \in DOMAIN netScanDict :
          (h < hostIdx /\ ~pingResults[h] /\ h \notin audited)
          => AllAbsentBothFalse(netScanDict[h])

\* C17 witness: the scan of an unreachable host returned after the base fetch,
\* the MAC walk and both interface walks each ended in a transport indication.
C17_Witness ==
    /\ pc = "returned"
    /\ ~pingStatus
    /\ AllIndications
    /\ Indicated("base") /\ Indicated("mac") /\ Indicated("phys") /\ Indicated("ip")
    /\ AllAbsentBothFalse(snmpDataDict)

\* C18: whatever the ping and SNMP outcomes, the driver loop comes to its end
\* and the scan dictionary handed to the report generator holds one record for
\* each enumerated host address.
C18_EveryHostReported ==
    <>(pc = "done" /\ DOMAIN netScanDict = Hosts(profile))

LowerHex(d) == <<"0","1","2","3","4","5","6","7","8","9","a","b","c","d","e","f">>[d + 1]

\* two lowercase hexadecimal digits of an octet
HexPair(n) == <<LowerHex(n \div 16), LowerHex(n % 16)>>

\* six octets as colon-separated lowercase hexadecimal groups
ColonHex(o) ==
    HexPair(o[1]) \o <<":">> \o HexPair(o[2]) \o <<":">> \o HexPair(o[3]) \o <<":">>
    \o HexPair(o[4]) \o <<":">> \o HexPair(o[5]) \o <<":">> \o HexPair(o[6])

\* C19: the MAC walk makes exactly one GET-NEXT request, and a MAC Address that
\* is not absent at return is the first row's six octets written as six
\* two-digit lowercase hexadecimal groups with colons between them.
C19_OneRequestCanonicalMac ==
    /\ Count("mac") <= 1
    /\ pc \in {"phys", "ip", "final", "returned"} => Count("mac") = 1
    /\ (pc = "returned" /\ snmpDataDict["MAC Address"] # None)
       => /\ macResp.kind = "success"
          /\ Len(macResp.varBinds) > 0
          /\ Len(macResp.varBinds[1].o) = 6
          /\ snmpDataDict["MAC Address"] = Str(ColonHex(macResp.varBinds[1].o))

\* what a returned value holds: the dicts in it and their field values
Holds(value, x) ==
    \E h \in DOMAIN value : value[h] = x \/ \E k \in DOMAIN value[h] : value[h][k] = x

\* C20: the value snmpAudit returns holds the interface record of every
\* interface index met by the two walks, next to the host record.
C20_ReturnHoldsInterfaceRecords ==
    pc = "returned"
    => \A i \in physSeen \cup ipSeen :
          i \in DOMAIN interfaceDict /\ Holds(ReturnValue, interfaceDict[i])

\* C21: snmpAudit is called for an address if and only if its ping succeeded or
\* the ignore-ping flag is set; an address it was not called for keeps a record
\* with every data field absent and both flags false; and the PING flag of
\* every record is the ping result of its address.
C21_AuditIffReachableOrIgnored ==
    \A h \in 1..Len(pingResults) :
       /\ h \in audited <=> (pingResults[h] \/ ignorePingFlag)
       /\ h \notin audited => AllAbsentBothFalse(netScanDict[h])
       /\ netScanDict[h]["PING"] = Bool(pingResults[h])

\* C22: a string the IP walk appends for a row is made of the address and the
\* netmask that same row delivered, and they are stored under the index that
\* same row delivered: never an absent address, never an address, a mask or an
\* index of an earlier row or of the physical walk.
C22_CidrFromSameRowOnly ==
    [][(IpRowStep /\ pc' # "raised")
       => /\ ipResp'.varBinds[1].t = "Integer32"
          /\ ipResp'.varBinds[2].t = "IpAddress"
          /\ ipResp'.varBinds[3].t = "IpAddress"
          /\ intNumber' = PyInt(ipResp'.varBinds[1].n)
          /\ interfaceDict'[ipResp'.varBinds[1].n]["IP Address"] =
                IPv4Address(ipResp'.varBinds[2].o)
          /\ interfaceDict'[ipResp'.varBinds[1].n]["Netmask"] =
                IPv4Address(ipResp'.varBinds[3].o)
          /\ snmpDataDict'["IP Addresses"] =
                ListPlus(snmpDataDict, CidrText(ipResp'.varBinds[2].o,
                                                PrefixLen(ipResp'.varBinds[3].o)))]_vars

\* the fields that are none of the ten identity fields
OtherFields == {Keys[i] : i \in NumRequested + 1..Len(Keys)}

\* C23: for any response the positional fill of the base fetch leaves MAC
\* Address, IP Addresses, PING and SNMP as they were, the base fetch as a whole
\* changes none of them but the SNMP flag, and the PING flag of a returned
\* record is the reachability value the caller passed.
C23_BaseFillWritesIdentityOnly ==
    /\ [](pc = "returned" => snmpDataDict["PING"] = Bool(pingStatus))
    /\ [][(pc = "base" /\ baseResp'.kind = "success" /\ Len(baseResp'.varBinds) > 0)
          => /\ \A k \in OtherFields :
                   FillLoop(snmpDataDict, BaseValues(baseResp'.varBinds, csvReportDelimeter),
                            1, 0)[k] = snmpDataDict[k]
             /\ \A k \in OtherFields \ {"SNMP"} : snmpDataDict'[k] = snmpDataDict[k]]_vars

====
